---- MODULE Spec2Model ----
(***************************************************************************)
(* Model of sonirico/stadio: the Option[T] and Result[T] value types of    *)
(* package fp (src/fp/option.go holds both), the slice functions of        *)
(* package slices, and the Native and Concurrent maps of package ds/map.   *)
(*                                                                         *)
(* T is modelled as the integers 0..MaxVal, whose zero value is 0.  A Go   *)
(* error is a record: nil, or a non-nil error with an identity and the     *)
(* text its Error() method returns.  A func() X is a function on the       *)
(* empty tuple, a func(T) X a function on Vals.  Every method is an        *)
(* operator returning an outcome: the returned value, the number of times  *)
(* the caller's functions were invoked, and whether the call panicked.     *)
(*                                                                         *)
(* Each package has its own specification: Spec and SpecPtr (fp),          *)
(* SpecSlices (slices), SpecNative (a Native map used by one caller),      *)
(* SpecMap and SpecGetOrSet (goroutines sharing a Concurrent map).         *)
(***************************************************************************)
EXTENDS Integers, Sequences, FiniteSets, TLC

VARIABLES opt, res, call, heap, origin, slice, inner, L, gor

vars == <<opt, res, call, heap, origin, slice, inner, L, gor>>

(* ---------------------------- bounds ---------------------------------- *)

MaxVal == 1

MaxErrId == 2

MaxAddr == 2

(* ---------------------------- values ---------------------------------- *)

Zero == 0

Vals == 0..MaxVal

Texts == {<<>>, <<"b", "a", "d">>}

nil == [isNil |-> TRUE, id |-> 0, text |-> <<>>]

NonNilErrors == [isNil : {FALSE}, id : 1..MaxErrId, text : Texts]

Errors == {nil} \cup NonNilErrors

Error(e) == e.text

Fns == [Vals -> Vals]

Producers(S) == [{<<>>} -> S]

Invoke(fn) == fn[<<>>]

(* One invocation of a function the caller passed in: the name of the    *)
(* parameter and the arguments it was called with.                        *)
Called(name, arg) == [fn |-> name, arg |-> arg]

(* A call that returns v after invoking its parameter fn n times with no *)
(* argument.  writes lists the assignments a call makes to the fields of  *)
(* the caller's instance: the methods have value receivers and assign to  *)
(* no field, so it is empty.                                              *)
Returns(v, n) ==
    [ret |-> v, calls |-> n, panicked |-> FALSE, msg |-> <<>>,
     trace |-> [i \in 1..n |-> Called("fn", <<>>)], writes |-> <<>>]

(* A call that returns v after the invocations listed in trace. *)
Invoked(v, trace) ==
    [ret |-> v, calls |-> Len(trace), panicked |-> FALSE, msg |-> <<>>,
     trace |-> trace, writes |-> <<>>]

Panics(m, n) ==
    [ret |-> <<>>, calls |-> n, panicked |-> TRUE, msg |-> m,
     trace |-> [i \in 1..n |-> Called("fn", <<>>)], writes |-> <<>>]

(* The caller's instance after a call that made the assignments ws. *)
RECURSIVE ApplyWrites(_, _)
ApplyWrites(x, ws) ==
    IF ws = <<>> THEN x
    ELSE ApplyWrites([x EXCEPT ![Head(ws).field] = Head(ws).val], Tail(ws))

(* ---------------------------- Option ---------------------------------- *)

ZeroOption == [value |-> Zero, isSome |-> FALSE]

(* Mutant of Some: a zero payload is taken for absence. *)
Some_zeroIsAbsent(t) == [value |-> t, isSome |-> t # Zero]

Some(t) == [value |-> t, isSome |-> TRUE]

None == ZeroOption

OptionValues == {None} \cup {Some(v) : v \in Vals}

(* ---------------------------- Result ---------------------------------- *)

ZeroResult == [value |-> Zero, err |-> nil]

(* Mutant of Ok: the value is dropped. *)
Ok_dropsValue(v) == [value |-> Zero, err |-> nil]

Ok(v) == [value |-> v, err |-> nil]

OkZero == [value |-> Zero, err |-> nil]

Err(err) == [value |-> Zero, err |-> err]

ResultValues == {Ok(v) : v \in Vals} \cup {Err(e) : e \in Errors}

(* ------------------------ Option constructors ------------------------- *)

(* Mutant of OptionFromTuple: x is stored even when ok is false. *)
OptionFromTuple_keepsValue(x, ok) == [value |-> x, isSome |-> ok]

OptionFromTuple(x, ok) == IF ok THEN Some(x) ELSE None

NilPtr == [isNil |-> TRUE, pointee |-> Zero]

Ptrs == {NilPtr} \cup [isNil : {FALSE}, pointee : Vals]

(* Mutant of OptionFromPtr: a pointer to a zero value is taken for nil. *)
OptionFromPtr_zeroIsNil(x) ==
    IF x.isNil \/ x.pointee = Zero THEN None ELSE Some(x.pointee)

OptionFromPtr(x) == IF x.isNil THEN None ELSE Some(x.pointee)

(* The caller's memory: the variables a *T can point to.  A pointer is   *)
(* NilAddr or an address; Load gives what OptionFromPtr sees of it when   *)
(* it is called: whether it is nil and, if not, the value *x.             *)
Addrs == 1..MaxAddr

NilAddr == 0

Load(h, p) ==
    IF p = NilAddr THEN NilPtr ELSE [isNil |-> FALSE, pointee |-> h[p]]

(* Where the Option the caller holds came from, when OptionFromPtr built *)
(* it: the pointer and the value it pointed to at that time.              *)
NoOrigin == [addr |-> NilAddr, seen |-> Zero]

(* Mutant of OptionFromZero: the comparison with the zero value is lost. *)
OptionFromZero_unchecked(x) == Some(x)

OptionFromZero(x) == IF x = Zero THEN None ELSE Some(x)

(* -------------------------- Option methods ---------------------------- *)

Option_IsSome(o) == Returns(o.isSome, 0)

(* Mutant of Option.IsNone: tests the payload instead of the flag. *)
Option_IsNone_byValue(o) == Returns(o.value = Zero, 0)

Option_IsNone(o) == Returns(~o.isSome, 0)

Option_Unwrap(o) == Returns(<<o.value, o.isSome>>, 0)

(* Mutant of Option.UnwrapOr: a zero payload is taken for absence. *)
Option_UnwrapOr_zeroIsAbsent(o, value) ==
    IF o.isSome /\ o.value # Zero THEN Returns(o.value, 0)
                                  ELSE Returns(value, 0)

Option_UnwrapOr(o, value) ==
    IF o.isSome THEN Returns(o.value, 0) ELSE Returns(value, 0)

(* Mutant of Option.UnwrapOrElse: the producer is evaluated eagerly. *)
Option_UnwrapOrElse_eager(o, fn) ==
    IF o.isSome THEN Returns(o.value, 1) ELSE Returns(Invoke(fn), 1)

Option_UnwrapOrElse(o, fn) ==
    IF o.isSome THEN Returns(o.value, 0) ELSE Returns(Invoke(fn), 1)

Option_UnwrapOrDefault(o) ==
    IF o.isSome THEN Returns(o.value, 0) ELSE Returns(Zero, 0)

OptionNoneMsg ==
    <<"o", "p", "t", "i", "o", "n", " ", "i", "s", " ", "n", "o", "n", "e">>

Option_UnwrapUnsafe(o) ==
    IF ~o.isSome THEN Panics(OptionNoneMsg, 0) ELSE Returns(o.value, 0)

Option_Or(o, other) ==
    IF ~o.isSome THEN Returns(other, 0) ELSE Returns(o, 0)

Option_OrElse(o, fn) ==
    IF ~o.isSome THEN Returns(Invoke(fn), 1) ELSE Returns(o, 0)

(* Mutant of Option.Map: the state test is missing. *)
Option_Map_unguarded(o, fn) == Returns(Some(fn[o.value]), 1)

(* Mutant of Option.Map: a pointer receiver transformed in place. *)
Option_Map_inPlace(o, fn) ==
    IF o.isSome
    THEN [Invoked(Some(fn[o.value]), <<Called("fn", <<o.value>>)>>)
             EXCEPT !.writes = <<[field |-> "value", val |-> fn[o.value]]>>]
    ELSE Returns(o, 0)

Option_Map(o, fn) ==
    IF o.isSome
    THEN Invoked(Some(fn[o.value]), <<Called("fn", <<o.value>>)>>)
    ELSE Returns(o, 0)

Option_MapOr(o, value, fn) ==
    IF o.isSome THEN Invoked(fn[o.value], <<Called("fn", <<o.value>>)>>)
                ELSE Returns(value, 0)

(* Mutant of Option.MapOrElse: the default is computed up front. *)
Option_MapOrElse_eager(o, handleNone, handleSome) ==
    IF o.isSome
    THEN Invoked(handleSome[o.value],
                 <<Called("handleNone", <<>>),
                   Called("handleSome", <<o.value>>)>>)
    ELSE Invoked(Invoke(handleNone), <<Called("handleNone", <<>>)>>)

Option_MapOrElse(o, handleNone, handleSome) ==
    IF o.isSome
    THEN Invoked(handleSome[o.value], <<Called("handleSome", <<o.value>>)>>)
    ELSE Invoked(Invoke(handleNone), <<Called("handleNone", <<>>)>>)

(* Mutant of Option.OkOr: the error passed in is dropped. *)
Option_OkOr_dropsErr(o, err) == Returns(Ok(o.value), 0)

Option_OkOr(o, err) ==
    IF o.isSome THEN Returns(Ok(o.value), 0) ELSE Returns(Err(err), 0)

Option_OkOrElse(o, fn) ==
    IF o.isSome THEN Returns(Ok(o.value), 0) ELSE Returns(Err(Invoke(fn)), 1)

Option_Match(o, handleSome, handleNone) ==
    IF o.isSome
    THEN Invoked(handleSome[o.value], <<Called("handleSome", <<o.value>>)>>)
    ELSE Invoked(Invoke(handleNone), <<Called("handleNone", <<>>)>>)

(* -------------------------- Result methods ---------------------------- *)

Result_IsOk(r) == Returns(r.err = nil, 0)

Result_IsErr(r) == Returns(r.err # nil, 0)

ResultErrPrefix ==
    <<"r", "e", "s", "u", "l", "t", " ", "i", "s", " ",
      "e", "r", "r", "o", "r", ":", " ">>

(* Mutant of Result.UnwrapUnsafe: the panic message omits the error text. *)
Result_UnwrapUnsafe_noText(r) ==
    IF r.err # nil THEN Panics(ResultErrPrefix, 0) ELSE Returns(r.value, 0)

Result_UnwrapUnsafe(r) ==
    IF r.err # nil THEN Panics(ResultErrPrefix \o Error(r.err), 0)
                   ELSE Returns(r.value, 0)

Result_Unwrap(r) == Returns(<<r.value, r.err>>, 0)

(* Mutant of Result.UnwrapOr: an Err receiver faults as in UnwrapUnsafe. *)
Result_UnwrapOr_faults(r, other) ==
    IF r.err = nil THEN Returns(r.value, 0)
                   ELSE Panics(ResultErrPrefix \o Error(r.err), 0)

Result_UnwrapOr(r, other) ==
    IF r.err = nil THEN Returns(r.value, 0) ELSE Returns(other, 0)

Result_UnwrapOrElse(r, fn) ==
    IF r.err = nil THEN Returns(r.value, 0) ELSE Returns(Invoke(fn), 1)

Result_UnwrapOrDefault(r) ==
    IF r.err = nil THEN Returns(r.value, 0) ELSE Returns(Zero, 0)

Result_Or(r, other) ==
    IF r.err = nil THEN Returns(r, 0) ELSE Returns(other, 0)

Result_OrElse(r, fn) ==
    IF r.err = nil THEN Returns(r, 0) ELSE Returns(Invoke(fn), 1)

(* Mutant of Result.Match: the error handler's Result is thrown away. *)
Result_Match_dropsHandled(r, handleOk, handleErr) ==
    IF r.err = nil
    THEN Invoked(handleOk[r.value], <<Called("handleOk", <<r.value>>)>>)
    ELSE Invoked(r, <<Called("handleErr", <<r.err>>)>>)

Result_Match(r, handleOk, handleErr) ==
    IF r.err = nil
    THEN Invoked(handleOk[r.value], <<Called("handleOk", <<r.value>>)>>)
    ELSE Invoked(handleErr[r.err], <<Called("handleErr", <<r.err>>)>>)

(* Mutant of Result.And: the branches are those of Or. *)
Result_And_asOr(r, other) ==
    IF r.err = nil THEN Returns(r, 0) ELSE Returns(other, 0)

Result_And(r, other) ==
    IF r.err = nil THEN Returns(other, 0) ELSE Returns(r, 0)

(* Mutant of Result.AndThen: the producer runs before the state test. *)
Result_AndThen_speculative(r, fn) ==
    IF r.err = nil THEN Returns(Ok(Invoke(fn)), 1) ELSE Returns(r, 1)

(* Mutant of Result.AndThen: the producer's result is thrown away. *)
Result_AndThen_keepsValue(r, fn) ==
    IF r.err = nil THEN Returns(r, 1) ELSE Returns(r, 0)

Result_AndThen(r, fn) ==
    IF r.err = nil THEN Returns(Ok(Invoke(fn)), 1) ELSE Returns(r, 0)

Result_Map(r, fn) ==
    IF r.err = nil
    THEN Invoked(Ok(fn[r.value]), <<Called("fn", <<r.value>>)>>)
    ELSE Returns(r, 0)

(* Mutant of Result.MapOr: the default is stored next to the error. *)
Result_MapOr_keepsErr(r, value, fn) ==
    IF r.err = nil
    THEN Invoked(Ok(fn[r.value]), <<Called("fn", <<r.value>>)>>)
    ELSE Returns([value |-> value, err |-> r.err], 0)

Result_MapOr(r, value, fn) ==
    IF r.err = nil
    THEN Invoked(Ok(fn[r.value]), <<Called("fn", <<r.value>>)>>)
    ELSE Returns(Ok(value), 0)

(* Mutant of Result.MapOrElse: an Err receiver stays an Err. *)
Result_MapOrElse_staysErr(r, handleErr, handleOk) ==
    IF r.err = nil
    THEN Invoked(Ok(handleOk[r.value]), <<Called("handleOk", <<r.value>>)>>)
    ELSE Invoked(r, <<Called("handleErr", <<r.err>>)>>)

Result_MapOrElse(r, handleErr, handleOk) ==
    IF r.err = nil
    THEN Invoked(Ok(handleOk[r.value]), <<Called("handleOk", <<r.value>>)>>)
    ELSE Invoked(Ok(handleErr[r.err]), <<Called("handleErr", <<r.err>>)>>)

(* ----------------- functions the caller passes in --------------------- *)

OptionHandlers == [Vals -> OptionValues]

ResultHandlers ==
    {[v \in Vals |-> Ok(f[v])] : f \in Fns}
        \cup {[v \in Vals |-> r] : r \in ResultValues}

ErrResultHandlers ==
    {[e \in NonNilErrors |-> Err(e)]}
        \cup {[e \in NonNilErrors |-> r] : r \in ResultValues}

ErrFns == {[e \in NonNilErrors |-> f[e.id]] : f \in [1..MaxErrId -> Vals]}

(* --------------------------- package slices --------------------------- *)

(* A non-nil []T is the sequence of its elements: the element at Go      *)
(* index i is at position i + 1.  The nil slice is a value of its own.    *)
(* The slices a caller passes have at most MaxLen elements; index         *)
(* arguments range a little beyond both ends.                             *)
MaxLen == 3

(* The nil slice, the zero value of []T: it has no elements. *)
NilSlice == [i \in {0} |-> Zero]

Slices == {NilSlice} \cup UNION {[1..n -> Vals] : n \in 0..MaxLen}

Idxs == (0 - 2)..(MaxLen + 1)

(* cap(arr) - len(arr): the room behind the elements of a slice. *)
Spares == 0..MaxLen

(* len(arr). *)
len(arr) == IF arr = NilSlice THEN 0 ELSE Len(arr)

(* The elements a range statement over arr visits. *)
Elems(arr) == IF arr = NilSlice THEN <<>> ELSE arr

(* The run-time check of an index expression arr[i]. *)
InRange(arr, i) == 0 <= i /\ i < len(arr)

(* The run-time check of a slice expression arr[low:]. *)
InSliceBounds(arr, low) == 0 <= low /\ low <= len(arr)

IndexOutOfRange == <<"index out of range">>

SliceBoundsOutOfRange == <<"slice bounds out of range">>

(* A call that returns v after assigning to the elements of the caller's  *)
(* backing array listed in ws.                                            *)
ReturnsWriting(v, ws) == [Returns(v, 0) EXCEPT !.writes = ws]

(* The same after the invocations listed in trace. *)
InvokedWriting(v, trace, ws) == [Invoked(v, trace) EXCEPT !.writes = ws]

IndexOf(arr, predicate) ==
    LET a == Elems(arr)
        hits == {i \in 1..Len(a) : predicate[a[i]]}
        first == IF hits = {} THEN 0
                 ELSE CHOOSE i \in hits : \A j \in hits : i <= j
        n == IF hits = {} THEN Len(a) ELSE first
    IN  Invoked(first - 1, [i \in 1..n |-> Called("predicate", <<a[i]>>)])

MapInPlace(arr, predicate) ==
    LET a == Elems(arr)
        ws == [i \in 1..Len(a) |-> [field |-> i, val |-> predicate[a[i]]]]
    IN  InvokedWriting(IF arr = NilSlice THEN arr ELSE ApplyWrites(a, ws),
                       [i \in 1..Len(a) |-> Called("predicate", <<a[i]>>)],
                       ws)

(* Mutant of FilterMapTuple_loop: the flag of the predicate is ignored. *)
RECURSIVE FilterMapTuple_loop_keepsAll(_, _, _)
FilterMapTuple_loop_keepsAll(arr, predicate, acc) ==
    IF arr = <<>> THEN acc
    ELSE FilterMapTuple_loop_keepsAll(Tail(arr), predicate,
             [res |-> Append(acc.res, predicate[Head(arr)][1]),
              trace |-> Append(acc.trace,
                               Called("predicate", <<Head(arr)>>))])

(* The loop of FilterMapTuple: acc holds res and the invocations of the  *)
(* predicate made so far.                                                 *)
RECURSIVE FilterMapTuple_loop(_, _, _)
FilterMapTuple_loop(arr, predicate, acc) ==
    IF arr = <<>> THEN acc
    ELSE LET mapped == predicate[Head(arr)][1]
             ok     == predicate[Head(arr)][2]
         IN  FilterMapTuple_loop(Tail(arr), predicate,
                 [res |-> IF ok THEN Append(acc.res, mapped) ELSE acc.res,
                  trace |-> Append(acc.trace,
                                   Called("predicate", <<Head(arr)>>))])

FilterMapTuple(arr, predicate) ==
    LET acc == FilterMapTuple_loop(Elems(arr), predicate,
                                   [res |-> <<>>, trace |-> <<>>])
    IN  Invoked(acc.res, acc.trace)

FilterMap(arr, predicate) ==
    LET pre == [t \in Vals |-> Option_Unwrap(predicate[t]).ret]
    IN  FilterMapTuple(arr, pre)

(* The loop of FilterInPlace and FilterInPlaceCopy from Go index i on:   *)
(* acc holds n, the assignments arr[n] = x and the invocations made.      *)
RECURSIVE FilterInPlace_loop(_, _, _, _)
FilterInPlace_loop(arr, predicate, i, acc) ==
    IF i >= Len(arr) THEN acc
    ELSE LET x == arr[i + 1]
             t == Append(acc.trace, Called("predicate", <<x>>))
         IN  IF predicate[x]
             THEN FilterInPlace_loop(arr, predicate, i + 1,
                      [n |-> acc.n + 1,
                       writes |-> IF acc.n # i
                                  THEN Append(acc.writes,
                                              [field |-> acc.n + 1, val |-> x])
                                  ELSE acc.writes,
                       trace |-> t])
             ELSE FilterInPlace_loop(arr, predicate, i + 1,
                                     [acc EXCEPT !.trace = t])

FilterInPlace(arr, predicate) ==
    LET a == Elems(arr)
        acc == FilterInPlace_loop(a, predicate, 0,
                                  [n |-> 0, writes |-> <<>>, trace |-> <<>>])
    IN  InvokedWriting(IF arr = NilSlice THEN arr
                       ELSE SubSeq(ApplyWrites(a, acc.writes), 1, acc.n),
                       acc.trace, acc.writes)

FilterInPlaceCopy(arr, predicate) ==
    LET a == Elems(arr)
        acc == FilterInPlace_loop(a, predicate, 0,
                                  [n |-> 0, writes |-> <<>>, trace |-> <<>>])
    IN  InvokedWriting(SubSeq(ApplyWrites(a, acc.writes), 1, acc.n),
                       acc.trace, acc.writes)

(* append(arr[:n], arr[low:]...): arr[:n] has room for the tail, so the   *)
(* tail is copied into the caller's backing array from index n on.        *)
AppendTail(arr, n, low) ==
    IF ~InSliceBounds(arr, low) THEN Panics(SliceBoundsOutOfRange, 0)
    ELSE ReturnsWriting(SubSeq(arr, 1, n) \o SubSeq(arr, low + 1, Len(arr)),
                        [i \in 1..(Len(arr) - low) |->
                            [field |-> n + i, val |-> arr[low + i]]])

Clamp(arr, i) == IF i < 0 THEN 0 ELSE IF i >= Len(arr) THEN Len(arr) - 1 ELSE i

Cut(arr, from, to) ==
    IF len(arr) < 1 THEN Returns(arr, 0)
    ELSE LET from_ == Clamp(arr, from)
             to_   == Clamp(arr, to)
         IN  IF Len(arr) = 1 THEN Returns(SubSeq(arr, 1, 0), 0)
             ELSE IF from_ > to_ THEN AppendTail(arr, from_, from_ + to_ + 1)
             ELSE AppendTail(arr, from_, to_ + 1)

(* append(arr, item): what it writes lies behind the elements of arr. *)
Append_(arr, item) == Returns(Append(Elems(arr), item), 0)

(* append(arr, items...): with no item it returns arr itself. *)
AppendVector(arr, items) ==
    Returns(IF len(items) = 0 THEN arr ELSE Elems(arr) \o Elems(items), 0)

Delete(arr, idx) ==
    LET le == len(arr) - 1
    IN  IF le < 0 \/ idx > le \/ idx < 0 THEN Returns(arr, 0)
        ELSE LET ws == <<[field |-> idx + 1, val |-> arr[le + 1]],
                         [field |-> le + 1, val |-> Zero]>>
             IN  ReturnsWriting(SubSeq(ApplyWrites(arr, ws), 1, le), ws)

DeleteOrder(arr, idx) ==
    LET le == len(arr) - 1
    IN  IF le < 0 \/ idx > le \/ idx < 0 THEN Returns(arr, 0)
        ELSE LET moved == IF le > 0
                          THEN [j \in 1..(le - idx) |->
                                   [field |-> idx + j, val |-> arr[idx + j + 1]]]
                          ELSE <<>>
                 ws == moved \o <<[field |-> le + 1, val |-> Zero]>>
             IN  ReturnsWriting(SubSeq(ApplyWrites(arr, ws), 1, le), ws)

FindIdx(arr, predicate) ==
    LET idx == IndexOf(arr, predicate)
    IN  Invoked(IF idx.ret < 0 THEN <<Zero, idx.ret>>
                ELSE <<arr[idx.ret + 1], idx.ret>>, idx.trace)

ExtractIdx(arr, idx) ==
    IF idx >= len(arr) \/ idx < 0 THEN Returns(<<NilSlice, Zero, FALSE>>, 0)
    ELSE LET item == arr[idx + 1]
             res_ == Delete(arr, idx)
         IN  ReturnsWriting(<<res_.ret, item, TRUE>>, res_.writes)

Extract(arr, predicate) ==
    LET found == FindIdx(arr, predicate)
        res_ == found.ret[1]
        idx == found.ret[2]
    IN  IF idx < 0 THEN Invoked(<<arr, res_, FALSE>>, found.trace)
        ELSE InvokedWriting(<<Delete(arr, idx).ret, res_, TRUE>>, found.trace,
                            Delete(arr, idx).writes)

Pop(arr) ==
    IF len(arr) < 1 THEN Returns(<<NilSlice, Zero, FALSE>>, 0)
    ELSE LET le == Len(arr) - 1
         IN  ReturnsWriting(<<SubSeq(arr, 1, le), arr[le + 1], TRUE>>,
                            <<[field |-> le + 1, val |-> Zero]>>)

Peek(arr, idx) ==
    IF len(arr) < 1 \/ idx >= len(arr) THEN Returns(<<Zero, FALSE>>, 0)
    ELSE IF ~InRange(arr, idx) THEN Panics(IndexOutOfRange, 0)
    ELSE Returns(<<arr[idx + 1], TRUE>>, 0)

PopFront(arr) ==
    IF len(arr) < 1 THEN Returns(<<arr, Zero, FALSE>>, 0)
    ELSE Returns(<<SubSeq(arr, 2, Len(arr)), arr[1], FALSE>>, 0)

Shift(arr) == PopFront(arr)

(* append(arr[:idx], tail...) where tail is a fresh slice: with room for *)
(* one element more per element of tail beyond len(arr) the elements of  *)
(* arr from idx on are overwritten in place, otherwise a new array is     *)
(* allocated and arr is left alone.  spare is cap(arr) - len(arr).        *)
AppendAt(arr, spare, idx, tail) ==
    LET res_ == SubSeq(arr, 1, idx) \o tail
    IN  IF Len(res_) <= Len(arr) + spare
        THEN ReturnsWriting(res_, [j \in 1..(Len(arr) - idx) |->
                                     [field |-> idx + j, val |-> tail[j]]])
        ELSE Returns(res_, 0)

Insert(arr, spare, item, idx) ==
    IF arr = NilSlice THEN Returns(<<item>>, 0)
    ELSE IF idx < 0 \/ idx > Len(arr) THEN Returns(arr, 0)
    ELSE AppendAt(arr, spare, idx,
                  <<item>> \o SubSeq(arr, idx + 1, Len(arr)))

InsertVector(arr, spare, items, idx) ==
    IF arr = NilSlice THEN Returns(items, 0)
    ELSE IF items = NilSlice \/ len(items) = 0 THEN Returns(arr, 0)
    ELSE IF idx < 0 \/ idx > Len(arr) THEN Returns(arr, 0)
    ELSE AppendAt(arr, spare, idx, items \o SubSeq(arr, idx + 1, Len(arr)))

(* Methods of Slice[T]: the pointer receivers assign the result to *s. *)
Slice_Delete(s, idx) == Delete(s, idx)

Slice_Append(s, item) == Returns(Append(Elems(s), item), 0)

Slice_Push(s, item) == Slice_Append(s, item)

Slice_AppendVector(s, items) ==
    Returns(IF len(items) = 0 THEN s ELSE Elems(s) \o Elems(items), 0)

Slice_MapInPlace(s, predicate) == MapInPlace(s, predicate)

Slice_FilterInPlace(s, predicate) == FilterInPlace(s, predicate)

Slice_FilterInPlaceCopy(s, predicate) == FilterInPlaceCopy(s, predicate)

Predicates == [Vals -> BOOLEAN]

(* ----------------------------- package map ---------------------------- *)

(* K is modelled as the integers 1..MaxKey and V as Vals.  A Go map that  *)
(* is not nil is a function on Keys whose value at a key that is not in   *)
(* the map is Absent.                                                     *)
MaxKey == 2

Keys == 1..MaxKey

Absent == 0 - 1

(* The nil map, the zero value of map[K]V. *)
NilMap == [k \in {0} |-> Absent]

(* make(map[K]V): the data of NewNative(). *)
NewNative == [k \in Keys |-> Absent]

NativeMaps == [Keys -> Vals \cup {Absent}]

(* The keys that are in the Go map. *)
Present(data) ==
    IF data = NilMap THEN {} ELSE {k \in Keys : data[k] # Absent}

(* The orders in which a range statement may visit the map: Go leaves    *)
(* the iteration order of a map unspecified.                              *)
Orders(data) ==
    {o \in [1..Cardinality(Present(data)) -> Present(data)] :
        \A i, j \in DOMAIN o : i # j => o[i] # o[j]}

(* An entry of a map as a callback receives it: key and value. *)
Pairs == Keys \X Vals

(* The callbacks of Map, func(K, V) (K, V): those that compute the new   *)
(* key from the key and the new value from the value.                     *)
MapFns ==
    {[e \in Pairs |-> <<kf[e[1]], vf[e[2]]>>] : kf \in [Keys -> Keys], vf \in Fns}

(* The zero value of fp.Option[tuples.Tuple2[K, V]]. *)
NoPair == [isSome |-> FALSE, value |-> <<Zero, Zero>>]

(* The callbacks of Filter: func(K, V) bool. *)
FilterFns == [Pairs -> BOOLEAN]

(* The callbacks of FilterMap, func(K, V) fp.Option[tuples.Tuple2[K, V]]: *)
(* those that decide on the entry and compute the new key from the key.   *)
FilterMapFns ==
    {[e \in Pairs |-> IF p[e] THEN [isSome |-> TRUE, value |-> <<kf[e[1]], e[2]>>]
                      ELSE NoPair] : p \in FilterFns, kf \in [Keys -> Keys]}

(* The callbacks of Range, func(K, V, int) bool: those that decide on the *)
(* entry and stop at an index.                                            *)
RangeFns ==
    {[a \in Keys \X Vals \X (0..(MaxKey - 1)) |-> p[<<a[1], a[2]>>] /\ a[3] < n] :
        p \in FilterFns, n \in 1..MaxKey}

(* A write to a nil map. *)
NilMapAssignment == <<"assignment to entry in nil map">>

(* The invocations p(k, v) a range statement over m makes in the order o. *)
Visits(m, o) == [i \in DOMAIN o |-> Called("p", <<o[i], m[o[i]]>>)]

(* maps.Map: res[k2] = v2 for every entry, in iteration order, so of two  *)
(* entries that p sends to the same key the one visited last stays.       *)
maps_Map(m, o, p) ==
    IF m = NilMap THEN Returns(NilMap, 0)
    ELSE Invoked(ApplyWrites(NewNative,
                     [i \in DOMAIN o |->
                         [field |-> p[<<o[i], m[o[i]]>>][1],
                          val |-> p[<<o[i], m[o[i]]>>][2]]]),
                 Visits(m, o))

maps_FilterMap(m, o, p) ==
    IF m = NilMap THEN Returns(NilMap, 0)
    ELSE LET kept == SelectSeq(o, LAMBDA k :
                                    Option_IsSome(p[<<k, m[k]>>]).ret)
         IN  Invoked(ApplyWrites(NewNative,
                         [i \in DOMAIN kept |->
                             LET v == Option_UnwrapUnsafe(
                                          p[<<kept[i], m[kept[i]]>>]).ret
                             IN  [field |-> v[1], val |-> v[2]]]),
                     Visits(m, o))

maps_Filter(m, o, p) ==
    IF m = NilMap THEN Returns(NilMap, 0)
    ELSE Invoked([k \in Keys |-> IF m[k] # Absent /\ p[<<k, m[k]>>]
                                 THEN m[k] ELSE Absent],
                 Visits(m, o))

Native_Get(data, k) ==
    IF k \in Present(data) THEN Returns(<<data[k], TRUE>>, 0)
    ELSE Returns(<<Zero, FALSE>>, 0)

Native_Has(data, k) == Returns(k \in Present(data), 0)

Native_Set(data, k, v) ==
    IF data = NilMap THEN Panics(NilMapAssignment, 0)
    ELSE ReturnsWriting(<<>>, <<[field |-> k, val |-> v]>>)

Native_Delete(data, k) ==
    IF data = NilMap THEN Returns(<<>>, 0)
    ELSE ReturnsWriting(<<>>, <<[field |-> k, val |-> Absent]>>)

Native_GetOrSet(data, k, def) ==
    IF k \in Present(data) THEN Returns(<<data[k], TRUE>>, 0)
    ELSE IF data = NilMap THEN Panics(NilMapAssignment, 0)
    ELSE ReturnsWriting(<<def, TRUE>>, <<[field |-> k, val |-> def]>>)

(* Range visits the entries in the order o until fn returns false. *)
Native_Range(data, o, fn) ==
    LET stops == {i \in DOMAIN o : ~fn[<<o[i], data[o[i]], i - 1>>]}
        n == IF stops = {} THEN Len(o)
             ELSE CHOOSE i \in stops : \A j \in stops : i <= j
    IN  Invoked(<<>>, [i \in 1..n |->
                          Called("fn", <<o[i], data[o[i]], i - 1>>)])

(* Map, FilterMap and Filter return a Native around the map that the      *)
(* function of package maps returns: ret is the data of that Native.      *)
Native_Map(data, o, fn) == maps_Map(data, o, fn)

Native_FilterMap(data, o, fn) == maps_FilterMap(data, o, fn)

Native_Filter(data, o, fn) == maps_Filter(data, o, fn)

Native_Values(data, o) == Returns([i \in DOMAIN o |-> data[o[i]]], 0)

Native_Keys(data, o) == Returns(o, 0)

Native_Entries(data, o) ==
    Returns([i \in DOMAIN o |-> [K |-> o[i], V |-> data[o[i]]]], 0)

Goroutines == {"g1", "g2"}

NoG == "none"

(* The zero value of sync.RWMutex: w is the goroutine that has called    *)
(* Lock and not yet Unlock, r counts the read locks each goroutine holds. *)
Unlocked == [w |-> NoG, r |-> [g \in Goroutines |-> 0]]

(* A goroutine that is in no call: stack holds the frames of its calls   *)
(* in progress, log the calls it has completed.                           *)
Idle == [stack |-> <<>>, log |-> <<>>]

(* The methods of Concurrent, and those that pass a callback to the      *)
(* inner map.                                                             *)
Methods ==
    {"Get", "Has", "Set", "Range", "Delete", "GetOrSet", "Map", "FilterMap",
     "Filter", "Values", "Keys", "Entries"}

WithCallback == {"Range", "Map", "FilterMap", "Filter"}

(* Mutant of LockKind: Delete takes the read lock. *)
LockKind_deleteReads(op) == IF op \in {"Set", "GetOrSet"} THEN "w" ELSE "r"

(* Mutant of LockKind: GetOrSet takes the read lock. *)
LockKind_getOrSetReads(op) == IF op \in {"Set", "Delete"} THEN "w" ELSE "r"

(* Mutant of LockKind: Set takes the read lock. *)
LockKind_setReads(op) == IF op \in {"Delete", "GetOrSet"} THEN "w" ELSE "r"

(* The lock a method of Concurrent takes around its inner call: "w" for  *)
(* Lock/Unlock, "r" for RLock/RUnlock.                                    *)
LockKind(op) == IF op \in {"Set", "Delete", "GetOrSet"} THEN "w" ELSE "r"

(* The arguments a caller passes for the key and the value. *)
Args(op) ==
    CASE op \in {"Get", "Has", "Delete"} -> {<<k>> : k \in Keys}
      [] op \in {"Set", "GetOrSet"} -> Keys \X Vals
      [] OTHER -> {<<>>}

(* What else the inner call of a method depends on, drawn when it runs:  *)
(* for the methods that range over the Go map the iteration order, and    *)
(* what the callback returns for each entry.                              *)
Drawn(data, op) ==
    CASE op \in {"Get", "Has", "Set", "Delete", "GetOrSet"} -> {<<>>}
      [] op = "Range" -> Orders(data) \X RangeFns
      [] op = "Map" -> Orders(data) \X MapFns
      [] op = "FilterMap" -> Orders(data) \X FilterMapFns
      [] op = "Filter" -> Orders(data) \X FilterFns
      [] OTHER -> {<<o>> : o \in Orders(data)}

(* Concurrent.Has asks the inner map with Get and drops the value. *)
Concurrent_Has(data, k) == Returns(Native_Get(data, k).ret[2], 0)

(* The call a method of Concurrent makes on its MapInner, a Native. *)
MapInner(data, op, in) ==
    CASE op = "Get" -> Native_Get(data, in[1])
      [] op = "Has" -> Concurrent_Has(data, in[1])
      [] op = "Set" -> Native_Set(data, in[1], in[2])
      [] op = "Range" -> Native_Range(data, in[1], in[2])
      [] op = "Delete" -> Native_Delete(data, in[1])
      [] op = "GetOrSet" -> Native_GetOrSet(data, in[1], in[2])
      [] op = "Map" -> Native_Map(data, in[1], in[2])
      [] op = "FilterMap" -> Native_FilterMap(data, in[1], in[2])
      [] op = "Filter" -> Native_Filter(data, in[1], in[2])
      [] op = "Values" -> Native_Values(data, in[1])
      [] op = "Keys" -> Native_Keys(data, in[1])
      [] op = "Entries" -> Native_Entries(data, in[1])

(* sync.RWMutex: no goroutine holds a read lock. *)
NoReaders(l) == \A g \in Goroutines : l.r[g] = 0

(* The number of calls of goroutine g that have taken the lock: those it *)
(* has completed and those whose inner call has started.                  *)
Locked(proc) ==
    Len(proc.log)
        + Cardinality({i \in DOMAIN proc.stack :
                          proc.stack[i].pc \in {"in", "out"}})

(* The same for the goroutines of gs together. *)
RECURSIVE Acquired(_, _)
Acquired(gs, procs) ==
    IF gs = {} THEN 0
    ELSE LET g == CHOOSE x \in gs : TRUE
         IN  Locked(procs[g]) + Acquired(gs \ {g}, procs)

(* ------------------------------ state --------------------------------- *)

NoRecv == <<>>

Record(op, recv, args, out) ==
    [op |-> op, recv |-> recv, args |-> args, ret |-> out.ret,
     calls |-> out.calls, panicked |-> out.panicked, msg |-> out.msg,
     trace |-> out.trace, recvAfter |-> ApplyWrites(recv, out.writes)]

Init ==
    /\ opt = ZeroOption
    /\ res = ZeroResult
    /\ call = Record("init", NoRecv, <<>>, Returns(<<>>, 0))
    /\ heap = [a \in Addrs |-> Zero]
    /\ origin = NoOrigin
    /\ slice = NilSlice
    /\ inner = NewNative
    /\ L = Unlocked
    /\ gor = [g \in Goroutines |-> Idle]

(* A constructor call: the caller keeps the new Option. *)
NewOption(op, args, o) ==
    /\ opt' = o
    /\ call' = Record(op, NoRecv, args, Returns(o, 0))
    /\ UNCHANGED res
    /\ UNCHANGED <<heap, origin, slice, inner, L, gor>>

(* A constructor call: the caller keeps the new Result. *)
NewResult(op, args, r) ==
    /\ res' = r
    /\ call' = Record(op, NoRecv, args, Returns(r, 0))
    /\ UNCHANGED opt
    /\ UNCHANGED <<heap, origin, slice, inner, L, gor>>

(* A query or extraction on the Option the caller holds. *)
OptionCall(op, args, out) ==
    /\ call' = Record(op, opt, args, out)
    /\ opt' = ApplyWrites(opt, out.writes)
    /\ UNCHANGED res
    /\ UNCHANGED <<heap, origin, slice, inner, L, gor>>

(* A combinator on the Option the caller holds; the caller keeps the    *)
(* Option it returns.                                                    *)
OptionChain(op, args, out) ==
    /\ call' = Record(op, opt, args, out)
    /\ opt' = out.ret
    /\ UNCHANGED res
    /\ UNCHANGED <<heap, origin, slice, inner, L, gor>>

(* A conversion of the Option the caller holds to a Result.              *)
OptionToResult(op, args, out) ==
    /\ call' = Record(op, opt, args, out)
    /\ res' = out.ret
    /\ opt' = ApplyWrites(opt, out.writes)
    /\ UNCHANGED <<heap, origin, slice, inner, L, gor>>

(* A query or extraction on the Result the caller holds. *)
ResultCall(op, args, out) ==
    /\ call' = Record(op, res, args, out)
    /\ res' = ApplyWrites(res, out.writes)
    /\ UNCHANGED opt
    /\ UNCHANGED <<heap, origin, slice, inner, L, gor>>

(* A combinator on the Result the caller holds; the caller keeps the    *)
(* Result it returns.                                                    *)
ResultChain(op, args, out) ==
    /\ call' = Record(op, res, args, out)
    /\ res' = out.ret
    /\ UNCHANGED opt
    /\ UNCHANGED <<heap, origin, slice, inner, L, gor>>

(* ------------------------- Option actions ----------------------------- *)

CallSome == \E v \in Vals : NewOption("Some", <<v>>, Some(v))

CallNone == NewOption("None", <<>>, None)

CallOptionFromTuple ==
    \E x \in Vals, ok \in BOOLEAN :
        NewOption("OptionFromTuple", <<x, ok>>, OptionFromTuple(x, ok))

CallOptionFromPtr ==
    \E p \in Ptrs : NewOption("OptionFromPtr", <<p>>, OptionFromPtr(p))

CallOptionFromZero ==
    \E x \in Vals : NewOption("OptionFromZero", <<x>>, OptionFromZero(x))

OptionIsSome == OptionCall("Option.IsSome", <<>>, Option_IsSome(opt))

OptionIsNone == OptionCall("Option.IsNone", <<>>, Option_IsNone(opt))

OptionUnwrap == OptionCall("Option.Unwrap", <<>>, Option_Unwrap(opt))

OptionUnwrapOr ==
    \E d \in Vals :
        OptionCall("Option.UnwrapOr", <<d>>, Option_UnwrapOr(opt, d))

OptionUnwrapOrElse ==
    \E fn \in Producers(Vals) :
        OptionCall("Option.UnwrapOrElse", <<fn>>, Option_UnwrapOrElse(opt, fn))

OptionUnwrapOrDefault ==
    OptionCall("Option.UnwrapOrDefault", <<>>, Option_UnwrapOrDefault(opt))

OptionUnwrapUnsafe ==
    OptionCall("Option.UnwrapUnsafe", <<>>, Option_UnwrapUnsafe(opt))

OptionOr ==
    \E other \in OptionValues :
        OptionChain("Option.Or", <<other>>, Option_Or(opt, other))

OptionOrElse ==
    \E fn \in Producers(OptionValues) :
        OptionChain("Option.OrElse", <<fn>>, Option_OrElse(opt, fn))

OptionMap ==
    \E fn \in Fns : OptionChain("Option.Map", <<fn>>, Option_Map(opt, fn))

OptionMapOr ==
    \E d \in Vals, fn \in Fns :
        OptionCall("Option.MapOr", <<d, fn>>, Option_MapOr(opt, d, fn))

OptionMapOrElse ==
    \E handleNone \in Producers(Vals), handleSome \in Fns :
        OptionCall("Option.MapOrElse", <<handleNone, handleSome>>,
                   Option_MapOrElse(opt, handleNone, handleSome))

OptionOkOr ==
    \E err \in Errors :
        OptionToResult("Option.OkOr", <<err>>, Option_OkOr(opt, err))

OptionOkOrElse ==
    \E fn \in Producers(Errors) :
        OptionToResult("Option.OkOrElse", <<fn>>, Option_OkOrElse(opt, fn))

OptionMatch ==
    \E handleSome \in OptionHandlers, handleNone \in Producers(OptionValues) :
        OptionChain("Option.Match", <<handleSome, handleNone>>,
                    Option_Match(opt, handleSome, handleNone))

(* ------------------------- Result actions ----------------------------- *)

CallOk == \E v \in Vals : NewResult("Ok", <<v>>, Ok(v))

CallOkZero == NewResult("OkZero", <<>>, OkZero)

CallErr == \E e \in Errors : NewResult("Err", <<e>>, Err(e))

ResultIsOk == ResultCall("Result.IsOk", <<>>, Result_IsOk(res))

ResultIsErr == ResultCall("Result.IsErr", <<>>, Result_IsErr(res))

ResultUnwrapUnsafe ==
    ResultCall("Result.UnwrapUnsafe", <<>>, Result_UnwrapUnsafe(res))

ResultUnwrap == ResultCall("Result.Unwrap", <<>>, Result_Unwrap(res))

ResultUnwrapOr ==
    \E d \in Vals :
        ResultCall("Result.UnwrapOr", <<d>>, Result_UnwrapOr(res, d))

ResultUnwrapOrElse ==
    \E fn \in Producers(Vals) :
        ResultCall("Result.UnwrapOrElse", <<fn>>, Result_UnwrapOrElse(res, fn))

ResultUnwrapOrDefault ==
    ResultCall("Result.UnwrapOrDefault", <<>>, Result_UnwrapOrDefault(res))

ResultOr ==
    \E other \in ResultValues :
        ResultChain("Result.Or", <<other>>, Result_Or(res, other))

ResultOrElse ==
    \E fn \in Producers(ResultValues) :
        ResultChain("Result.OrElse", <<fn>>, Result_OrElse(res, fn))

ResultMatch ==
    \E handleOk \in ResultHandlers, handleErr \in ErrResultHandlers :
        ResultChain("Result.Match", <<handleOk, handleErr>>,
                    Result_Match(res, handleOk, handleErr))

ResultAnd ==
    \E other \in ResultValues :
        ResultChain("Result.And", <<other>>, Result_And(res, other))

ResultAndThen ==
    \E fn \in Producers(Vals) :
        ResultChain("Result.AndThen", <<fn>>, Result_AndThen(res, fn))

ResultMap ==
    \E fn \in Fns : ResultChain("Result.Map", <<fn>>, Result_Map(res, fn))

ResultMapOr ==
    \E d \in Vals, fn \in Fns :
        ResultChain("Result.MapOr", <<d, fn>>, Result_MapOr(res, d, fn))

ResultMapOrElse ==
    \E handleErr \in ErrFns, handleOk \in Fns :
        ResultChain("Result.MapOrElse", <<handleErr, handleOk>>,
                    Result_MapOrElse(res, handleErr, handleOk))

Next ==
    \/ CallSome \/ CallNone \/ CallOptionFromTuple \/ CallOptionFromPtr
    \/ CallOptionFromZero
    \/ OptionIsSome \/ OptionIsNone \/ OptionUnwrap \/ OptionUnwrapOr
    \/ OptionUnwrapOrElse \/ OptionUnwrapOrDefault \/ OptionUnwrapUnsafe
    \/ OptionOr \/ OptionOrElse \/ OptionMap \/ OptionMapOr
    \/ OptionMapOrElse \/ OptionOkOr \/ OptionOkOrElse \/ OptionMatch
    \/ CallOk \/ CallOkZero \/ CallErr
    \/ ResultIsOk \/ ResultIsErr \/ ResultUnwrapUnsafe \/ ResultUnwrap
    \/ ResultUnwrapOr \/ ResultUnwrapOrElse \/ ResultUnwrapOrDefault
    \/ ResultOr \/ ResultOrElse \/ ResultMatch \/ ResultAnd \/ ResultAndThen
    \/ ResultMap \/ ResultMapOr \/ ResultMapOrElse

Spec == Init /\ [][Next]_vars

(* ------------------ pointers: OptionFromPtr and the heap -------------- *)

(* OptionFromPtr on a pointer into the caller's memory. *)
CallOptionFromPtrAt ==
    \E p \in {NilAddr} \cup Addrs :
        /\ opt' = OptionFromPtr(Load(heap, p))
        /\ call' = Record("OptionFromPtr", NoRecv, <<Load(heap, p)>>,
                          Returns(OptionFromPtr(Load(heap, p)), 0))
        /\ origin' = [addr |-> p, seen |-> Load(heap, p).pointee]
        /\ UNCHANGED <<res, heap, slice, inner, L, gor>>

(* The caller assigns through a pointer: *p = v. *)
StorePointee ==
    \E a \in Addrs, v \in Vals :
        /\ heap' = [heap EXCEPT ![a] = v]
        /\ call' = Record("store", NoRecv, <<a, v>>, Returns(<<>>, 0))
        /\ UNCHANGED <<opt, res, origin, slice, inner, L, gor>>

NextPtr ==
    \/ CallOptionFromPtrAt \/ StorePointee
    \/ OptionIsSome \/ OptionIsNone \/ OptionUnwrap \/ OptionUnwrapOr
    \/ OptionUnwrapOrDefault \/ OptionUnwrapUnsafe

SpecPtr == Init /\ [][NextPtr]_vars

(* ----------------------- calls of package slices ---------------------- *)

(* A call of a function of package slices, or of a method of Slice[T],   *)
(* on the slice the caller holds; the caller keeps the slice it returns.  *)
SliceCall(op, args, out, kept) ==
    /\ call' = Record(op, slice, args, out)
    /\ slice' = IF out.panicked THEN slice ELSE kept
    /\ UNCHANGED <<opt, res, heap, origin, inner, L, gor>>

CallMapInPlace ==
    \E predicate \in Fns :
        SliceCall("MapInPlace", <<predicate>>, MapInPlace(slice, predicate),
                  MapInPlace(slice, predicate).ret)

CallFilterMap ==
    \E predicate \in OptionHandlers :
        SliceCall("FilterMap", <<predicate>>, FilterMap(slice, predicate),
                  FilterMap(slice, predicate).ret)

CallFilterInPlace ==
    \E predicate \in Predicates :
        SliceCall("FilterInPlace", <<predicate>>,
                  FilterInPlace(slice, predicate),
                  FilterInPlace(slice, predicate).ret)

CallFilterInPlaceCopy ==
    \E predicate \in Predicates :
        SliceCall("FilterInPlaceCopy", <<predicate>>,
                  FilterInPlaceCopy(slice, predicate),
                  FilterInPlaceCopy(slice, predicate).ret)

CallCut ==
    \E from \in Idxs, to \in Idxs :
        SliceCall("Cut", <<from, to>>, Cut(slice, from, to),
                  Cut(slice, from, to).ret)

CallAppend ==
    \E item \in Vals :
        /\ len(slice) < MaxLen
        /\ SliceCall("Append", <<item>>, Append_(slice, item),
                     Append_(slice, item).ret)

CallAppendVector ==
    \E items \in Slices :
        /\ len(slice) + len(items) <= MaxLen
        /\ SliceCall("AppendVector", <<items>>, AppendVector(slice, items),
                     AppendVector(slice, items).ret)

CallDelete ==
    \E idx \in Idxs :
        SliceCall("Delete", <<idx>>, Delete(slice, idx), Delete(slice, idx).ret)

CallDeleteOrder ==
    \E idx \in Idxs :
        SliceCall("DeleteOrder", <<idx>>, DeleteOrder(slice, idx),
                  DeleteOrder(slice, idx).ret)

CallExtractIdx ==
    \E idx \in Idxs :
        SliceCall("ExtractIdx", <<idx>>, ExtractIdx(slice, idx),
                  ExtractIdx(slice, idx).ret[1])

CallExtract ==
    \E predicate \in Predicates :
        SliceCall("Extract", <<predicate>>, Extract(slice, predicate),
                  Extract(slice, predicate).ret[1])

CallPop == SliceCall("Pop", <<>>, Pop(slice), Pop(slice).ret[1])

CallPeek == \E idx \in Idxs : SliceCall("Peek", <<idx>>, Peek(slice, idx), slice)

CallPopFront == SliceCall("PopFront", <<>>, PopFront(slice), PopFront(slice).ret[1])

CallShift == SliceCall("Shift", <<>>, Shift(slice), Shift(slice).ret[1])

CallInsert ==
    \E spare \in Spares, item \in Vals, idx \in Idxs :
        /\ len(slice) < MaxLen
        /\ SliceCall("Insert", <<spare, item, idx>>,
                     Insert(slice, spare, item, idx),
                     Insert(slice, spare, item, idx).ret)

CallInsertVector ==
    \E spare \in Spares, items \in Slices, idx \in Idxs :
        /\ len(slice) + len(items) <= MaxLen
        /\ SliceCall("InsertVector", <<spare, items, idx>>,
                     InsertVector(slice, spare, items, idx),
                     InsertVector(slice, spare, items, idx).ret)

SliceDelete ==
    \E idx \in Idxs :
        SliceCall("Slice.Delete", <<idx>>, Slice_Delete(slice, idx),
                  Slice_Delete(slice, idx).ret)

SlicePush ==
    \E item \in Vals :
        /\ len(slice) < MaxLen
        /\ SliceCall("Slice.Push", <<item>>, Slice_Push(slice, item),
                     Slice_Push(slice, item).ret)

SliceAppend ==
    \E item \in Vals :
        /\ len(slice) < MaxLen
        /\ SliceCall("Slice.Append", <<item>>, Slice_Append(slice, item),
                     Slice_Append(slice, item).ret)

SliceAppendVector ==
    \E items \in Slices :
        /\ len(slice) + len(items) <= MaxLen
        /\ SliceCall("Slice.AppendVector", <<items>>,
                     Slice_AppendVector(slice, items),
                     Slice_AppendVector(slice, items).ret)

SliceMapInPlace ==
    \E predicate \in Fns :
        SliceCall("Slice.MapInPlace", <<predicate>>,
                  Slice_MapInPlace(slice, predicate),
                  Slice_MapInPlace(slice, predicate).ret)

SliceFilterInPlace ==
    \E predicate \in Predicates :
        SliceCall("Slice.FilterInPlace", <<predicate>>,
                  Slice_FilterInPlace(slice, predicate),
                  Slice_FilterInPlace(slice, predicate).ret)

SliceFilterInPlaceCopy ==
    \E predicate \in Predicates :
        SliceCall("Slice.FilterInPlaceCopy", <<predicate>>,
                  Slice_FilterInPlaceCopy(slice, predicate),
                  Slice_FilterInPlaceCopy(slice, predicate).ret)

(* The caller starts with any slice of at most MaxLen elements. *)
InitSlices ==
    /\ opt = ZeroOption
    /\ res = ZeroResult
    /\ call = Record("init", NoRecv, <<>>, Returns(<<>>, 0))
    /\ heap = [a \in Addrs |-> Zero]
    /\ origin = NoOrigin
    /\ slice \in Slices
    /\ inner = NewNative
    /\ L = Unlocked
    /\ gor = [g \in Goroutines |-> Idle]

NextSlices ==
    \/ CallMapInPlace \/ CallFilterMap \/ CallFilterInPlace
    \/ CallFilterInPlaceCopy \/ CallCut \/ CallAppend \/ CallAppendVector
    \/ CallDelete \/ CallDeleteOrder \/ CallExtractIdx \/ CallExtract
    \/ CallPop \/ CallPeek \/ CallPopFront \/ CallShift \/ CallInsert
    \/ CallInsertVector
    \/ SliceDelete \/ SlicePush \/ SliceAppend \/ SliceAppendVector
    \/ SliceMapInPlace \/ SliceFilterInPlace \/ SliceFilterInPlaceCopy

SpecSlices == InitSlices /\ [][NextSlices]_vars

(* --------------------- goroutines on a Concurrent --------------------- *)

(* The frame of the innermost call goroutine g is in. *)
Top(g) == gor[g].stack[Len(gor[g].stack)]

(* A call starts: pc is where the method is, read the data its inner     *)
(* call has read, ret what it is about to return and seq its place in     *)
(* the order in which the calls took the lock.                            *)
Push(g, op, args) ==
    [gor EXCEPT
        ![g].stack = Append(@, [op |-> op, args |-> args, pc |-> "call",
                                read |-> <<>>, ret |-> <<>>, seq |-> 0])]

Goto(g, pc) == [gor EXCEPT ![g].stack[Len(gor[g].stack)].pc = pc]

(* The inner call of g starts: it reads the data of the map as it is now. *)
(* keep tells whether the caller keeps a record of the call.              *)
Enter(g, keep) ==
    [gor EXCEPT ![g].stack[Len(gor[g].stack)] =
                    [@ EXCEPT !.pc = "in", !.read = inner,
                              !.seq = IF keep
                                      THEN Acquired(Goroutines, gor) + 1
                                      ELSE 0]]

(* Goroutine g, in no call, calls one of the methods ops. *)
Call(g, ops) ==
    /\ gor[g].stack = <<>>
    /\ \E op \in ops : \E args \in Args(op) : gor' = Push(g, op, args)
    /\ UNCHANGED <<opt, res, call, heap, origin, slice, inner, L>>

(* The callback g passed to Range, Map, FilterMap or Filter runs inside   *)
(* the inner call, once per entry, and calls a method of the same         *)
(* Concurrent.                                                            *)
CallbackCalls(g) ==
    /\ Len(gor[g].stack) = 1
    /\ Top(g).op \in WithCallback
    /\ Top(g).pc = "in"
    /\ Present(inner) # {}
    /\ \E op \in Methods \ WithCallback :
          \E args \in Args(op) : gor' = Push(g, op, args)
    /\ UNCHANGED <<opt, res, call, heap, origin, slice, inner, L>>

(* m.L.RLock(): waits while a writer holds the lock or waits for it. *)
RLock(g, keep) ==
    /\ gor[g].stack # <<>>
    /\ Top(g).pc = "call"
    /\ LockKind(Top(g).op) = "r"
    /\ L.w = NoG
    /\ L' = [L EXCEPT !.r[g] = @ + 1]
    /\ gor' = Enter(g, keep)
    /\ UNCHANGED <<opt, res, call, heap, origin, slice, inner>>

(* m.L.Lock(), first half: g becomes the writer, which keeps new readers *)
(* and other writers out.                                                 *)
Lock(g) ==
    /\ gor[g].stack # <<>>
    /\ Top(g).pc = "call"
    /\ LockKind(Top(g).op) = "w"
    /\ L.w = NoG
    /\ L' = [L EXCEPT !.w = g]
    /\ gor' = Goto(g, "pending")
    /\ UNCHANGED <<opt, res, call, heap, origin, slice, inner>>

(* m.L.Lock(), second half: the writer waits for the readers to leave. *)
LockAcquired(g, keep) ==
    /\ gor[g].stack # <<>>
    /\ Top(g).pc = "pending"
    /\ NoReaders(L)
    /\ gor' = Enter(g, keep)
    /\ UNCHANGED <<opt, res, call, heap, origin, slice, inner, L>>

(* The inner call completes on what it read, its assignments reach the   *)
(* map and the lock is released, by m.L.Unlock(), m.L.RUnlock() or the    *)
(* deferred m.L.RUnlock(); the method has not returned yet.               *)
(* keep tells whether the caller keeps what the method returns.           *)
Leave(g, keep) ==
    /\ gor[g].stack # <<>>
    /\ Top(g).pc = "in"
    /\ \E d \in Drawn(Top(g).read, Top(g).op) :
          LET out == MapInner(Top(g).read, Top(g).op, Top(g).args \o d)
          IN  /\ inner' = ApplyWrites(inner, out.writes)
              /\ gor' = [gor EXCEPT ![g].stack[Len(gor[g].stack)] =
                            [@ EXCEPT !.pc = "out", !.read = <<>>,
                                      !.ret = IF keep THEN out.ret ELSE <<>>]]
    /\ L' = IF LockKind(Top(g).op) = "w" THEN [L EXCEPT !.w = NoG]
            ELSE [L EXCEPT !.r[g] = @ - 1]
    /\ UNCHANGED <<opt, res, call, heap, origin, slice>>

(* The return statement of the method: the caller has the results.       *)
(* keep tells whether the caller keeps a record of the call.              *)
Return(g, keep) ==
    /\ gor[g].stack # <<>>
    /\ Top(g).pc = "out"
    /\ gor' = [gor EXCEPT
                  ![g].stack = SubSeq(@, 1, Len(@) - 1),
                  ![g].log = IF keep
                             THEN Append(@, [op |-> Top(g).op,
                                             args |-> Top(g).args,
                                             ret |-> Top(g).ret,
                                             seq |-> Top(g).seq])
                             ELSE @]
    /\ UNCHANGED <<opt, res, call, heap, origin, slice, inner, L>>

NextMap ==
    \E g \in Goroutines :
        \/ Call(g, Methods) \/ CallbackCalls(g)
        \/ RLock(g, FALSE) \/ Lock(g) \/ LockAcquired(g, FALSE)
        \/ Leave(g, FALSE) \/ Return(g, FALSE)

SpecMap == Init /\ [][NextMap]_vars

(* Each goroutine calls GetOrSet once and then Get, on an empty map, and  *)
(* keeps what they return.                                                *)
CallGetOrSet(g) ==
    gor[g].log = <<>> /\ Call(g, {"GetOrSet"})

CallGet(g) == Len(gor[g].log) = 1 /\ Call(g, {"Get"})

NextGetOrSet ==
    \E g \in Goroutines :
        \/ CallGetOrSet(g) \/ CallGet(g)
        \/ RLock(g, TRUE) \/ Lock(g) \/ LockAcquired(g, TRUE)
        \/ Leave(g, TRUE) \/ Return(g, TRUE)

SpecGetOrSet == Init /\ [][NextGetOrSet]_vars

(* -------------------------- calls on a Native ------------------------- *)

(* A method call on the Native the caller holds: its data is a Go map,   *)
(* so the assignments of the method are seen by the caller.              *)
NativeCall(op, args, out) ==
    /\ call' = Record(op, inner, args, out)
    /\ inner' = ApplyWrites(inner, out.writes)
    /\ UNCHANGED <<opt, res, heap, origin, slice, L, gor>>

NativeGet == \E k \in Keys : NativeCall("Native.Get", <<k>>, Native_Get(inner, k))

NativeHas == \E k \in Keys : NativeCall("Native.Has", <<k>>, Native_Has(inner, k))

NativeSet ==
    \E k \in Keys, v \in Vals :
        NativeCall("Native.Set", <<k, v>>, Native_Set(inner, k, v))

NativeRange ==
    \E o \in Orders(inner), fn \in RangeFns :
        NativeCall("Native.Range", <<fn, o>>, Native_Range(inner, o, fn))

NativeDelete ==
    \E k \in Keys : NativeCall("Native.Delete", <<k>>, Native_Delete(inner, k))

NativeGetOrSet ==
    \E k \in Keys, def \in Vals :
        NativeCall("Native.GetOrSet", <<k, def>>, Native_GetOrSet(inner, k, def))

NativeMap ==
    \E o \in Orders(inner), fn \in MapFns :
        NativeCall("Native.Map", <<fn, o>>, Native_Map(inner, o, fn))

NativeFilterMap ==
    \E o \in Orders(inner), fn \in FilterMapFns :
        NativeCall("Native.FilterMap", <<fn, o>>,
                   Native_FilterMap(inner, o, fn))

NativeFilter ==
    \E o \in Orders(inner), fn \in FilterFns :
        NativeCall("Native.Filter", <<fn, o>>, Native_Filter(inner, o, fn))

NativeValues ==
    \E o \in Orders(inner) :
        NativeCall("Native.Values", <<>>, Native_Values(inner, o))

NativeKeys ==
    \E o \in Orders(inner) :
        NativeCall("Native.Keys", <<>>, Native_Keys(inner, o))

NativeEntries ==
    \E o \in Orders(inner) :
        NativeCall("Native.Entries", <<>>, Native_Entries(inner, o))

(* The caller holds the Native that NewNative() returns, or the zero      *)
(* value of Native, whose data is the nil map.                            *)
InitNative ==
    /\ opt = ZeroOption
    /\ res = ZeroResult
    /\ call = Record("init", NoRecv, <<>>, Returns(<<>>, 0))
    /\ heap = [a \in Addrs |-> Zero]
    /\ origin = NoOrigin
    /\ slice = NilSlice
    /\ inner \in {NewNative, NilMap}
    /\ L = Unlocked
    /\ gor = [g \in Goroutines |-> Idle]

NextNative ==
    \/ NativeGet \/ NativeHas \/ NativeSet \/ NativeRange \/ NativeDelete
    \/ NativeGetOrSet \/ NativeMap \/ NativeFilterMap \/ NativeFilter
    \/ NativeValues \/ NativeKeys \/ NativeEntries

SpecNative == InitNative /\ [][NextNative]_vars

(* ---------------------------- properties ------------------------------ *)

Contains(s, t) ==
    \E i \in 0..(Len(s) - Len(t)) : SubSeq(s, i + 1, i + Len(t)) = t

(* C1: for every v, the zero value included, Some(v) is Some, is not    *)
(* None and unwraps to (v, true); None() is not Some, is None and        *)
(* unwraps to (zero value, false).                                       *)
C1_SomeNoneUnwrap ==
    /\ call.op = "Some" =>
          /\ Option_IsSome(call.ret).ret = TRUE
          /\ Option_IsNone(call.ret).ret = FALSE
          /\ Option_Unwrap(call.ret).ret = <<call.args[1], TRUE>>
    /\ call.op = "None" =>
          /\ Option_IsSome(call.ret).ret = FALSE
          /\ Option_IsNone(call.ret).ret = TRUE
          /\ Option_Unwrap(call.ret).ret = <<Zero, FALSE>>
    /\ call.op = "Option.Unwrap" =>
          /\ \A v \in Vals : call.recv = Some(v) => call.ret = <<v, TRUE>>
          /\ call.recv = None => call.ret = <<Zero, FALSE>>

C1_Witness ==
    /\ call.op = "Option.Unwrap"
    /\ call.recv = Some(Zero)
    /\ call.ret = <<Zero, TRUE>>

(* C2: for every value e of the error type, nil included, Err(e) is in  *)
(* the failure state: IsErr() is true, IsOk() is false and Unwrap()      *)
(* returns (zero value, e).                                              *)
C2_ErrIsFailure ==
    call.op = "Err" =>
        /\ Result_IsErr(call.ret).ret = TRUE
        /\ Result_IsOk(call.ret).ret = FALSE
        /\ Result_Unwrap(call.ret).ret = <<Zero, call.args[1]>>

(* C3: in every Option and Result reachable from the constructors and   *)
(* the zero-value structs through the combinators, exactly one of the    *)
(* two state queries is true.                                            *)
C3_ExactlyOneState ==
    /\ Option_IsSome(opt).ret = ~Option_IsNone(opt).ret
    /\ Result_IsOk(res).ret = ~Result_IsErr(res).ret

C3_Witness ==
    /\ call.op = "Option.Match"
    /\ opt = Some(Zero)
    /\ Result_IsErr(res).ret

(* C4: UnwrapUnsafe faults exactly when no value is held: it returns v  *)
(* on Some(v) and on Ok(v), panics on None, and panics on Err(e) with a  *)
(* message that contains the text of e.                                  *)
C4_UnwrapUnsafeFaults ==
    /\ call.op = "Option.UnwrapUnsafe" =>
          /\ \A v \in Vals :
                call.recv = Some(v) => ~call.panicked /\ call.ret = v
          /\ call.recv = None => call.panicked
    /\ call.op = "Result.UnwrapUnsafe" =>
          /\ \A v \in Vals :
                call.recv = Ok(v) => ~call.panicked /\ call.ret = v
          /\ \A e \in NonNilErrors :
                call.recv = Err(e) =>
                    call.panicked /\ Contains(call.msg, Error(e))

C4_Witness ==
    /\ call.op = "Result.UnwrapUnsafe"
    /\ call.panicked
    /\ Len(Error(call.recv.err)) > 0

(* C5: every Option and Result operation other than UnwrapUnsafe        *)
(* returns normally for every receiver state and every argument.         *)
C5_TotalExceptUnsafe ==
    call.op \notin {"Option.UnwrapUnsafe", "Result.UnwrapUnsafe"} =>
        ~call.panicked

C5_Witness ==
    /\ call.op = "Result.UnwrapOr"
    /\ call.recv.err # nil
    /\ ~call.panicked

(* C6: UnwrapOrElse invokes its producer zero times on Some(v)/Ok(v),   *)
(* returning v, and exactly once on None/Err(e), returning the           *)
(* producer's result.                                                    *)
C6_UnwrapOrElseLazy ==
    /\ call.op = "Option.UnwrapOrElse" =>
          IF Option_IsSome(call.recv).ret
          THEN call.calls = 0 /\ call.ret = call.recv.value
          ELSE call.calls = 1 /\ call.ret = Invoke(call.args[1])
    /\ call.op = "Result.UnwrapOrElse" =>
          IF Result_IsOk(call.recv).ret
          THEN call.calls = 0 /\ call.ret = call.recv.value
          ELSE call.calls = 1 /\ call.ret = Invoke(call.args[1])

C6_Witness ==
    /\ call.op = "Option.UnwrapOrElse"
    /\ call.recv = Some(Zero)
    /\ Invoke(call.args[1]) # Zero
    /\ call.calls = 0

(* C7: Option.OrElse, Option.OkOrElse, Result.OrElse and Result.AndThen *)
(* call their producer exactly once, within the call, when the branch    *)
(* that needs it is taken (None, None, Err, Ok) and never otherwise.     *)
C7_LazyCombinators ==
    /\ call.op \in {"Option.OrElse", "Option.OkOrElse"} =>
          call.calls = IF Option_IsNone(call.recv).ret THEN 1 ELSE 0
    /\ call.op = "Result.OrElse" =>
          call.calls = IF Result_IsErr(call.recv).ret THEN 1 ELSE 0
    /\ call.op = "Result.AndThen" =>
          call.calls = IF Result_IsOk(call.recv).ret THEN 1 ELSE 0

C7_Witness ==
    /\ call.op = "Result.AndThen"
    /\ Result_IsErr(call.recv).ret
    /\ call.calls = 0

(* C8: Map(fn) returns Some(fn(v)) on Some(v) and Ok(fn(v)) on Ok(v),   *)
(* calling fn once; on None or Err(e) it returns the receiver as is and  *)
(* does not call fn.                                                     *)
C8_MapFrame ==
    /\ call.op = "Option.Map" =>
          /\ \A v \in Vals :
                call.recv = Some(v) =>
                    call.ret = Some(call.args[1][v]) /\ call.calls = 1
          /\ call.recv = None => call.ret = None /\ call.calls = 0
    /\ call.op = "Result.Map" =>
          /\ \A v \in Vals :
                call.recv = Ok(v) =>
                    call.ret = Ok(call.args[1][v]) /\ call.calls = 1
          /\ \A e \in NonNilErrors :
                call.recv = Err(e) => call.ret = Err(e) /\ call.calls = 0

C8_Witness ==
    /\ call.op = "Option.Map"
    /\ call.recv = None
    /\ call.args[1][Zero] # Zero
    /\ call.ret = None

(* C9: Some(v).OkOr(err) is Ok(v) and None().OkOr(err) is Err(err),     *)
(* whose Unwrap returns (zero value, err); OkOrElse(fn) gives the same   *)
(* with err = fn().                                                      *)
C9_OkOr ==
    /\ call.op = "Option.OkOr" =>
          /\ \A v \in Vals : call.recv = Some(v) => call.ret = Ok(v)
          /\ call.recv = None =>
                /\ call.ret = Err(call.args[1])
                /\ Result_Unwrap(call.ret).ret = <<Zero, call.args[1]>>
    /\ call.op = "Option.OkOrElse" =>
          /\ \A v \in Vals : call.recv = Some(v) => call.ret = Ok(v)
          /\ call.recv = None =>
                /\ call.ret = Err(Invoke(call.args[1]))
                /\ Result_Unwrap(call.ret).ret
                       = <<Zero, Invoke(call.args[1])>>

C9_Witness ==
    /\ call.op = "Option.OkOr"
    /\ call.recv = None
    /\ call.args[1] # nil
    /\ res = Err(call.args[1])

(* C10: Ok(a).And(other) is other, so Ok(a).And(Ok(b)).UnwrapUnsafe()   *)
(* is b; Err(e).And(other) is Err(e): it is in the Err state, carries e  *)
(* and the zero value, and keeps nothing of other.                       *)
C10_And ==
    call.op = "Result.And" =>
        /\ \A a \in Vals :
              call.recv = Ok(a) =>
                  /\ call.ret = call.args[1]
                  /\ \A b \in Vals :
                        call.args[1] = Ok(b) =>
                            Result_UnwrapUnsafe(call.ret).ret = b
        /\ \A e \in NonNilErrors :
              call.recv = Err(e) =>
                  /\ call.ret = Err(e)
                  /\ Result_IsErr(call.ret).ret
                  /\ Result_Unwrap(call.ret).ret = <<Zero, e>>

C10_Witness ==
    /\ call.op = "Result.And"
    /\ Result_IsErr(call.recv).ret
    /\ \E b \in Vals \ {Zero} : call.args[1] = Ok(b)
    /\ res = call.recv

(* C11: Result.MapOr and Result.MapOrElse always return an Ok Result:    *)
(* Ok(v).MapOr(d, fn) = Ok(fn(v)); Err(e).MapOr(d, fn) = Ok(d) with fn   *)
(* not invoked; Ok(v).MapOrElse(h, g) = Ok(g(v)); Err(e).MapOrElse(h, g) *)
(* = Ok(h(e)); the receiver's error never survives.                      *)
C11_MapOrAlwaysOk ==
    /\ call.op = "Result.MapOr" =>
          /\ Result_IsOk(call.ret).ret
          /\ \A v \in Vals :
                call.recv = Ok(v) => call.ret = Ok(call.args[2][v])
          /\ \A e \in NonNilErrors :
                call.recv = Err(e) =>
                    /\ call.ret = Ok(call.args[1])
                    /\ Result_Unwrap(call.ret).ret = <<call.args[1], nil>>
                    /\ call.calls = 0
    /\ call.op = "Result.MapOrElse" =>
          /\ Result_IsOk(call.ret).ret
          /\ \A v \in Vals :
                call.recv = Ok(v) => call.ret = Ok(call.args[2][v])
          /\ \A e \in NonNilErrors :
                call.recv = Err(e) => call.ret = Ok(call.args[1][e])

C11_Witness ==
    /\ call.op = "Result.MapOrElse"
    /\ Result_IsErr(call.recv).ret
    /\ call.args[1][call.recv.err] # Zero
    /\ Result_IsOk(res).ret

(* C12: Result.AndThen(producer) on Ok(v) returns Ok(producer()),        *)
(* whatever v is; on Err(e) it returns Err(e) unchanged.                 *)
C12_AndThen ==
    call.op = "Result.AndThen" =>
        /\ \A v \in Vals :
              call.recv = Ok(v) => call.ret = Ok(Invoke(call.args[1]))
        /\ \A e \in NonNilErrors :
              call.recv = Err(e) =>
                  /\ call.ret = Err(e)
                  /\ Result_Unwrap(call.ret).ret = <<Zero, e>>

C12_Witness ==
    /\ call.op = "Result.AndThen"
    /\ Result_IsOk(call.recv).ret
    /\ call.recv.value # Invoke(call.args[1])
    /\ res = Ok(Invoke(call.args[1]))

(* C13: in every Result reachable from Ok, OkZero, Err, Option.OkOr and  *)
(* Option.OkOrElse through Or, OrElse, And, AndThen, Map, MapOr,         *)
(* MapOrElse and Match, a non-nil error comes with the zero value, so    *)
(* Unwrap on an Err-state Result returns (zero value, e).                *)
C13_SlotsExclusive ==
    /\ res.err # nil => res.value = Zero
    /\ (call.op = "Result.Unwrap" /\ Result_IsErr(call.recv).ret) =>
          call.ret = <<Zero, call.recv.err>>

C13_Witness ==
    /\ call.op = "Result.Match"
    /\ call.recv.err = nil
    /\ call.recv.value # Zero
    /\ res.err # nil

(* C14: OptionFromZero(x) is None if and only if x is the zero value of  *)
(* T; otherwise it is Some(x) and unwraps to (x, true).                  *)
C14_OptionFromZero ==
    call.op = "OptionFromZero" =>
        /\ Option_IsNone(call.ret).ret <=> call.args[1] = Zero
        /\ call.args[1] = Zero => call.ret = None
        /\ call.args[1] # Zero =>
              /\ call.ret = Some(call.args[1])
              /\ Option_Unwrap(call.ret).ret = <<call.args[1], TRUE>>

C14_Witness ==
    /\ call.op = "OptionFromZero"
    /\ call.args[1] = Zero
    /\ opt = None

(* C15: OptionFromTuple(x, ok) is Some(x) when ok is true, for every x,  *)
(* the zero value included, and None() when ok is false: x is dropped    *)
(* and Unwrap returns (zero value, false).                               *)
C15_OptionFromTuple ==
    call.op = "OptionFromTuple" =>
        /\ call.args[2] => call.ret = Some(call.args[1])
        /\ ~call.args[2] =>
              /\ call.ret = None
              /\ Option_Unwrap(call.ret).ret = <<Zero, FALSE>>

C15_Witness ==
    /\ call.op = "OptionFromTuple"
    /\ call.args[1] # Zero
    /\ ~call.args[2]
    /\ opt = None

(* C17: the eager fallbacks pick the receiver's content when present and *)
(* the fallback otherwise: UnwrapOr(d) is v on Some(v)/Ok(v) and d on    *)
(* None/Err(e); UnwrapOrDefault() is v or the zero value; Or(other) is   *)
(* the receiver on Some/Ok and other on None/Err.                        *)
C17_EagerFallbacks ==
    /\ call.op = "Option.UnwrapOr" =>
          /\ \A v \in Vals : call.recv = Some(v) => call.ret = v
          /\ call.recv = None => call.ret = call.args[1]
    /\ call.op = "Option.UnwrapOrDefault" =>
          /\ \A v \in Vals : call.recv = Some(v) => call.ret = v
          /\ call.recv = None => call.ret = Zero
    /\ call.op = "Option.Or" =>
          /\ \A v \in Vals : call.recv = Some(v) => call.ret = call.recv
          /\ call.recv = None => call.ret = call.args[1]
    /\ call.op = "Result.UnwrapOr" =>
          /\ \A v \in Vals : call.recv = Ok(v) => call.ret = v
          /\ \A e \in NonNilErrors :
                call.recv = Err(e) => call.ret = call.args[1]
    /\ call.op = "Result.UnwrapOrDefault" =>
          /\ \A v \in Vals : call.recv = Ok(v) => call.ret = v
          /\ \A e \in NonNilErrors : call.recv = Err(e) => call.ret = Zero
    /\ call.op = "Result.Or" =>
          /\ \A v \in Vals : call.recv = Ok(v) => call.ret = call.recv
          /\ \A e \in NonNilErrors :
                call.recv = Err(e) => call.ret = call.args[1]

C17_Witness ==
    /\ call.op = "Option.UnwrapOr"
    /\ call.recv = Some(Zero)
    /\ call.args[1] # Zero
    /\ call.ret = Zero

(* C18: Option.MapOr(d, fn) is fn(v) on Some(v) and d on None;           *)
(* Option.MapOrElse(noneHandler, someHandler) is someHandler(v) on       *)
(* Some(v) and noneHandler() on None; one alternative is evaluated and   *)
(* the handler of the other state is never invoked.                      *)
C18_OptionMapOr ==
    /\ call.op = "Option.MapOr" =>
          /\ \A v \in Vals :
                call.recv = Some(v) =>
                    /\ call.ret = call.args[2][v]
                    /\ call.trace = <<Called("fn", <<v>>)>>
          /\ call.recv = None =>
                call.ret = call.args[1] /\ call.trace = <<>>
    /\ call.op = "Option.MapOrElse" =>
          /\ \A v \in Vals :
                call.recv = Some(v) =>
                    /\ call.ret = call.args[2][v]
                    /\ call.trace = <<Called("handleSome", <<v>>)>>
          /\ call.recv = None =>
                /\ call.ret = Invoke(call.args[1])
                /\ call.trace = <<Called("handleNone", <<>>)>>

C18_Witness ==
    /\ call.op = "Option.MapOrElse"
    /\ call.recv = Some(Zero)
    /\ call.ret # Invoke(call.args[1])
    /\ call.trace = <<Called("handleSome", <<Zero>>)>>

(* C19: Match dispatches on the receiver's state: Option.Match calls     *)
(* handleSome(v) on Some(v) and handleNone() on None; Result.Match calls *)
(* handleOk(v) on Ok(v) and handleErr(e) on Err(e); one handler is       *)
(* called, once, and its result is returned as is.                       *)
C19_Match ==
    /\ call.op = "Option.Match" =>
          /\ \A v \in Vals :
                call.recv = Some(v) =>
                    /\ call.ret = call.args[1][v]
                    /\ call.trace = <<Called("handleSome", <<v>>)>>
          /\ call.recv = None =>
                /\ call.ret = Invoke(call.args[2])
                /\ call.trace = <<Called("handleNone", <<>>)>>
    /\ call.op = "Result.Match" =>
          /\ \A v \in Vals :
                call.recv = Ok(v) =>
                    /\ call.ret = call.args[1][v]
                    /\ call.trace = <<Called("handleOk", <<v>>)>>
          /\ \A e \in NonNilErrors :
                call.recv = Err(e) =>
                    /\ call.ret = call.args[2][e]
                    /\ call.trace = <<Called("handleErr", <<e>>)>>

C19_Witness ==
    /\ call.op = "Result.Match"
    /\ Result_IsErr(call.recv).ret
    /\ call.trace = <<Called("handleErr", <<call.recv.err>>)>>
    /\ res = call.args[2][call.recv.err]
    /\ res # call.recv

(* C16: OptionFromPtr(p) is None for a nil pointer and Some of the       *)
(* pointee otherwise, holding a copy of it: assigning to the pointee     *)
(* after the call does not change what Unwrap returns.                   *)
C16_OptionFromPtrCopies ==
    /\ call.op = "OptionFromPtr" =>
          /\ call.args[1].isNil => call.ret = None
          /\ ~call.args[1].isNil => call.ret = Some(call.args[1].pointee)
    /\ origin.addr = NilAddr => Option_Unwrap(opt).ret = <<Zero, FALSE>>
    /\ origin.addr # NilAddr => Option_Unwrap(opt).ret = <<origin.seen, TRUE>>
    /\ (call.op = "Option.Unwrap" /\ origin.addr # NilAddr) =>
          call.ret = <<origin.seen, TRUE>>

C16_Witness ==
    /\ call.op = "Option.Unwrap"
    /\ origin.addr # NilAddr
    /\ heap[origin.addr] # origin.seen
    /\ call.ret = <<origin.seen, TRUE>>

(* C20: no Option or Result operation changes its receiver: after a      *)
(* call, every query and extraction on the instance returns what it      *)
(* returned before the call.                                             *)
ObserveOption(o) ==
    <<Option_IsSome(o).ret, Option_IsNone(o).ret, Option_Unwrap(o).ret,
      [d \in Vals |-> Option_UnwrapOr(o, d).ret],
      Option_UnwrapOrDefault(o).ret>>

ObserveResult(r) ==
    <<Result_IsOk(r).ret, Result_IsErr(r).ret, Result_Unwrap(r).ret,
      [d \in Vals |-> Result_UnwrapOr(r, d).ret],
      Result_UnwrapOrDefault(r).ret>>

OptionKept ==
    {"Option.IsSome", "Option.IsNone", "Option.Unwrap", "Option.UnwrapOr",
     "Option.UnwrapOrElse", "Option.UnwrapOrDefault", "Option.UnwrapUnsafe",
     "Option.MapOr", "Option.MapOrElse", "Option.OkOr", "Option.OkOrElse"}

OptionRebound == {"Option.Or", "Option.OrElse", "Option.Map", "Option.Match"}

ResultKept ==
    {"Result.IsOk", "Result.IsErr", "Result.UnwrapUnsafe", "Result.Unwrap",
     "Result.UnwrapOr", "Result.UnwrapOrElse", "Result.UnwrapOrDefault"}

ResultRebound ==
    {"Result.Or", "Result.OrElse", "Result.Match", "Result.And",
     "Result.AndThen", "Result.Map", "Result.MapOr", "Result.MapOrElse"}

C20_ReceiverUnchanged ==
    /\ call.op \in OptionKept \cup OptionRebound =>
          ObserveOption(call.recvAfter) = ObserveOption(call.recv)
    /\ call.op \in OptionKept => ObserveOption(opt) = ObserveOption(call.recv)
    /\ call.op \in ResultKept \cup ResultRebound =>
          ObserveResult(call.recvAfter) = ObserveResult(call.recv)
    /\ call.op \in ResultKept => ObserveResult(res) = ObserveResult(call.recv)

C20_Witness ==
    /\ call.op = "Option.Map"
    /\ call.recv = Some(Zero)
    /\ call.ret # call.recv
    /\ call.recvAfter = Some(Zero)

(* C21: Ok(v) is in the Ok state: IsOk() on it returns true and Unwrap()    *)
(* returns (v, nil).  OkZero() unwraps to (zero, nil) and is the same      *)
(* Result as Ok(zero).                                                     *)
C21_OkConstructors ==
    /\ call.op = "Ok" =>
          /\ Result_IsOk(call.ret).ret = TRUE
          /\ Result_Unwrap(call.ret).ret = <<call.args[1], nil>>
          /\ res = call.ret
    /\ call.op = "OkZero" =>
          /\ Result_IsOk(call.ret).ret = TRUE
          /\ Result_Unwrap(call.ret).ret = <<Zero, nil>>
          /\ call.ret = Ok(Zero)
    /\ (call.op = "Result.Unwrap" /\ \E v \in Vals : call.recv = Ok(v)) =>
          call.ret = <<call.recv.value, nil>>

C21_Witness ==
    /\ call.op = "Result.Unwrap"
    /\ call.recv = Ok(MaxVal)
    /\ call.ret = <<MaxVal, nil>>

(* C22: FilterMap(arr, p) returns, in input order, exactly the payloads   *)
(* of the elements on which p returns Some; p is called exactly once per  *)
(* element, in order; an empty input, or a p that returns None for every  *)
(* element, yields an empty result.                                       *)
C22_FilterMap ==
    call.op = "FilterMap" =>
        LET a    == Elems(call.recv)
            p    == call.args[1]
            kept == SelectSeq(a, LAMBDA x : p[x].isSome)
        IN  /\ ~call.panicked
            /\ call.ret = [i \in 1..Len(kept) |-> p[kept[i]].value]
            /\ call.calls = Len(a)
            /\ call.trace = [i \in 1..Len(a) |-> Called("predicate", <<a[i]>>)]
            /\ (a = <<>> \/ \A i \in 1..Len(a) : p[a[i]] = None) =>
                  call.ret = <<>>

C22_Witness ==
    /\ call.op = "FilterMap"
    /\ len(call.recv) = MaxLen
    /\ \E i \in 1..MaxLen : call.args[1][call.recv[i]] = None
    /\ \E i \in 1..MaxLen :
          /\ call.args[1][call.recv[i]].isSome
          /\ call.args[1][call.recv[i]].value # call.recv[i]
    /\ Len(call.ret) \in 1..(MaxLen - 1)

(* C25: PopFront(arr) on a non-empty slice returns (arr without its first *)
(* element, the first element, true); on an empty slice it returns (the   *)
(* original slice, zero, false).  Shift behaves identically.              *)
C25_PopFront ==
    call.op \in {"PopFront", "Shift"} =>
        IF len(call.recv) > 0
        THEN call.ret = <<Tail(call.recv), Head(call.recv), TRUE>>
        ELSE call.ret = <<call.recv, Zero, FALSE>>

(* C26: Peek(arr, idx) returns (arr[idx], true) when 0 <= idx < len(arr)  *)
(* and (zero, false) for every other integer idx, negative ones included; *)
(* it never faults and never modifies the slice.                          *)
C26_Peek ==
    call.op = "Peek" =>
        LET a == call.recv
            idx == call.args[1]
        IN  /\ ~call.panicked
            /\ call.ret = IF InRange(a, idx) THEN <<a[idx + 1], TRUE>>
                          ELSE <<Zero, FALSE>>
            /\ call.recvAfter = a
            /\ slice = a

(* The number of elements of the slice a that equal v. *)
Count(a, v) == Cardinality({i \in 1..Len(a) : a[i] = v})

(* C27: ExtractIdx(arr, idx) with idx out of bounds returns (the original *)
(* slice with all its elements, zero, false); with idx in bounds it       *)
(* returns (arr with the element at idx removed, that element, true),     *)
(* the slice being one shorter.                                           *)
C27_ExtractIdx ==
    call.op = "ExtractIdx" =>
        LET a == call.recv
            idx == call.args[1]
        IN  IF ~InRange(a, idx) THEN call.ret = <<a, Zero, FALSE>>
            ELSE /\ call.ret[2] = a[idx + 1]
                 /\ call.ret[3] = TRUE
                 /\ len(call.ret[1]) = Len(a) - 1
                 /\ \A v \in Vals :
                       Count(call.ret[1], v) =
                           Count(a, v) - (IF v = a[idx + 1] THEN 1 ELSE 0)

(* C28: Cut(arr, from, to) returns without faulting for every slice and   *)
(* every pair of integers.  An empty slice is returned as is; from and to *)
(* are clamped into [0, len-1]; a one-element slice becomes empty; with   *)
(* from <= to the result is arr[0..from) followed by arr(to..len), with   *)
(* from > to it is arr[0..from) followed by arr[from+to+1..len).          *)
C28_Cut ==
    call.op = "Cut" =>
        LET a == call.recv
            n == len(a)
            from == Clamp(a, call.args[1])
            to == Clamp(a, call.args[2])
        IN  /\ ~call.panicked
            /\ n = 0 => call.ret = a
            /\ n = 1 => call.ret = <<>>
            /\ (n > 1 /\ from <= to) =>
                  call.ret = SubSeq(a, 1, from) \o SubSeq(a, to + 2, n)
            /\ (n > 1 /\ from > to) =>
                  call.ret = SubSeq(a, 1, from) \o SubSeq(a, from + to + 2, n)

(* C23: GetOrSet(k, def) on a Native map: when k is present it returns   *)
(* (existing value, true) and leaves the map unchanged; when k is absent  *)
(* it stores def under k and returns (def, false).  The boolean reports   *)
(* whether the key already existed.                                       *)
C23_GetOrSet ==
    (call.op = "Native.GetOrSet" /\ call.recv # NilMap) =>
        LET data == call.recv
            k == call.args[1]
            def == call.args[2]
        IN  IF k \in Present(data)
            THEN /\ call.ret = <<data[k], TRUE>>
                 /\ call.recvAfter = data
                 /\ inner = data
            ELSE /\ call.ret = <<def, FALSE>>
                 /\ call.recvAfter = [data EXCEPT ![k] = def]
                 /\ inner = [data EXCEPT ![k] = def]

(* The frames of calls whose inner call is running: goroutine and depth. *)
Inside ==
    {f \in Goroutines \X {1, 2} :
        /\ f[2] <= Len(gor[f[1]].stack)
        /\ gor[f[1]].stack[f[2]].pc = "in"}

FrameOp(f) == gor[f[1]].stack[f[2]].op

Mutating == {"Set", "Delete", "GetOrSet"}

(* C24: in every interleaving of calls of the twelve methods of a         *)
(* Concurrent map, a mutating inner call (Set, Delete, GetOrSet) never    *)
(* overlaps any other inner call; only read-only calls run concurrently.  *)
C24_WritersExclusive ==
    \A f1 \in Inside : \A f2 \in Inside :
        f1 # f2 => FrameOp(f1) \notin Mutating /\ FrameOp(f2) \notin Mutating

C24_Witness ==
    \E g1 \in Goroutines : \E g2 \in Goroutines \ {g1} :
        /\ gor[g1].stack # <<>> /\ gor[g2].stack # <<>>
        /\ Top(g1).op = "Delete" /\ Top(g1).pc = "in"
        /\ Top(g2).op \in Methods \ Mutating /\ Top(g2).pc = "call"
        /\ inner # NewNative

(* The first completed call of goroutine g, its GetOrSet. *)
First(g) == gor[g].log[1]

(* C29: two goroutines call GetOrSet(k, d1) and GetOrSet(k, d2) on a      *)
(* Concurrent map in which k is absent: both return the same value, the   *)
(* default of the call that took the write lock first; a later Get(k)     *)
(* returns that value and the other default is never stored.              *)
C29_GetOrSetAtomic ==
    \A g1 \in Goroutines : \A g2 \in Goroutines \ {g1} :
        (/\ gor[g1].log # <<>> /\ gor[g2].log # <<>>
         /\ First(g1).args[1] = First(g2).args[1]
         /\ First(g1).seq < First(g2).seq) =>
            LET k == First(g1).args[1]
                d == First(g1).args[2]
            IN  /\ First(g1).ret[1] = d
                /\ First(g2).ret[1] = d
                /\ inner[k] = d
                /\ \A g \in {g1, g2} :
                      (Len(gor[g].log) = 2 /\ gor[g].log[2].args = <<k>>) =>
                          gor[g].log[2].ret = <<d, TRUE>>

C29_Witness ==
    \E g1 \in Goroutines : \E g2 \in Goroutines \ {g1} :
        /\ Len(gor[g1].log) = 2 /\ Len(gor[g2].log) = 2
        /\ First(g1).args[1] = First(g2).args[1]
        /\ First(g1).args[2] # First(g2).args[2]
        /\ First(g1).seq < First(g2).seq
        /\ gor[g2].log[2].args = <<First(g1).args[1]>>
        /\ gor[g2].log[2].ret = <<First(g1).args[2], TRUE>>

(* Goroutine g is in a callback that has called a method of the same map. *)
Nested(g) == Len(gor[g].stack) = 2

NestedWrite(g) == Nested(g) /\ Top(g).op \in Mutating

NestedRead(g) == Nested(g) /\ Top(g).op \notin Mutating

(* C30: Range, Map, Filter and FilterMap hold the read lock while the     *)
(* callback runs.  A callback that calls Set, Delete or GetOrSet on the   *)
(* same map blocks on the write lock for ever, and the enclosing call     *)
(* never returns; a callback that calls Get, Has, Keys, Values or         *)
(* Entries, with no writer waiting, is never blocked and completes.       *)
C30_CallbackHoldsLock ==
    /\ [][\A g \in Goroutines : NestedWrite(g) => NestedWrite(g)']_vars
    /\ [](\A g \in Goroutines :
            /\ Nested(g) => L.r[g] >= 1
            /\ NestedWrite(g) => Top(g).pc \in {"call", "pending"}
            /\ (NestedRead(g) /\ Top(g).pc = "call" /\ L.w = NoG) =>
                  ENABLED RLock(g, FALSE)
            /\ (NestedRead(g) /\ Top(g).pc = "in") =>
                  ENABLED Leave(g, FALSE)
            /\ (NestedRead(g) /\ Top(g).pc = "out") =>
                  ENABLED Return(g, FALSE))

C30_Witness ==
    \E g1 \in Goroutines : \E g2 \in Goroutines \ {g1} :
        /\ NestedWrite(g1) /\ Top(g1).pc = "pending"
        /\ NestedRead(g2) /\ Top(g2).pc = "in"

====
